---------------------------- MODULE Spec2Model ----------------------------
(***************************************************************************)
(* Model of the diagram-analysis pipeline of the Skyrchitect backend:      *)
(*   backend/utils/image_processor.py     ImageProcessor                   *)
(*   backend/utils/pdf_converter.py       PDFConverter                     *)
(*   backend/agents/image_analysis_agent.py  ImageAnalysisAgent            *)
(*   backend/api/main.py                  analyze_architecture_image       *)
(*                                                                         *)
(* Text is modelled as a sequence of symbols.  Punctuation, digits, the    *)
(* backtick ("tick"), the double quote ("quote"), the blank ("sp"), the     *)
(* newline ("nl") and the letters of the fence tag ("j","s","o","n") are   *)
(* one symbol per character.  Every other word of a reply (a key name, an  *)
(* enum value, a service name, a run of prose) is one symbol; positions    *)
(* and lengths count symbols.                                              *)
(***************************************************************************)
EXTENDS Integers, Sequences, FiniteSets, TLC

VARIABLES
    pc,                 \* position of the operation under way
    upload,             \* the UploadedFile of the request: name and type
    is_valid,           \* the first half of the validator's (is_valid, error_msg)
    error_msg,          \* its second half; "None" while no validator has run
    file_content,       \* main.py: file_content, the bytes read
    processed_content,  \* the image produced by the image or the PDF path
    proc_error,         \* the error half of the (bytes, error) pair
    s3_url,             \* main.py: s3_url
    client_image,       \* the image handed to analyze_architecture_diagram
    response_text,      \* the model's reply (analysis_text)
    json_str,           \* _parse_analysis_response: json_str
    analysis_result,    \* what _parse_analysis_response returned or raised
    components,         \* main.py: components (UI list)
    status,             \* HTTP status of the response, 0 while pending
    steps,              \* the calls the request has made, in order
    image_analysis_agent, \* the module global _image_analysis_agent: 0 for
                        \* None, n for the n-th instance constructed
    constructed,        \* how many ImageAnalysisAgent instances were built
    requests            \* the requests in flight, when several are modelled

vars == <<pc, upload, is_valid, error_msg, file_content, processed_content,
          proc_error, s3_url, client_image, response_text, json_str,
          analysis_result, components, status, steps, image_analysis_agent,
          constructed, requests>>

\* the state of the process that outlives a request
process == <<image_analysis_agent, constructed>>

---------------------------------------------------------------------------
(* Python str primitives, 0-based as in the source.                        *)

Min(S) == CHOOSE m \in S : \A n \in S : m <= n

Max(S) == CHOOSE m \in S : \A n \in S : m >= n

Whitespace == {"sp", "nl"}

\* str.find(sub, start): lowest 0-based index >= start where sub occurs, else -1
Find(text, sub, start) ==
    LET hits == {i \in start..(Len(text) - Len(sub)) :
                    \A k \in 1..Len(sub) : text[i + k] = sub[k]}
    IN  IF hits = {} THEN -1 ELSE Min(hits)

\* `sub in text`
Contains(text, sub) == Find(text, sub, 0) # -1

\* text[a:b] for a >= 0; a negative b counts from the end
Slice(text, a, b) ==
    LET n  == Len(text)
        hi == IF b < 0 THEN (IF n + b < 0 THEN 0 ELSE n + b)
              ELSE IF b > n THEN n ELSE b
        lo == IF a > n THEN n ELSE a
    IN  IF hi <= lo THEN << >> ELSE SubSeq(text, lo + 1, hi)

\* str.strip()
Strip(text) ==
    LET keep == {i \in 1..Len(text) : text[i] \notin Whitespace}
    IN  IF keep = {} THEN << >> ELSE SubSeq(text, Min(keep), Max(keep))

---------------------------------------------------------------------------
(* json.loads: values and the decoder.                                      *)

NullValue == [kind |-> "null", num |-> 0, str |-> << >>, items |-> << >>,
              members |-> << >>]

NumValue(n) == [NullValue EXCEPT !.kind = "num", !.num = n]

BoolValue(b) == [NullValue EXCEPT !.kind = "bool", !.num = IF b THEN 1 ELSE 0]

StrValue(s) == [NullValue EXCEPT !.kind = "str", !.str = s]

ArrValue(xs) == [NullValue EXCEPT !.kind = "arr", !.items = xs]

ObjValue(ms) == [NullValue EXCEPT !.kind = "obj", !.members = ms]

\* dict[key] = val: a repeated key keeps its place and takes the last value
Put(ms, key, val) ==
    IF \E i \in 1..Len(ms) : ms[i].key = key
    THEN [i \in 1..Len(ms) |->
             IF ms[i].key = key THEN [key |-> key, val |-> val] ELSE ms[i]]
    ELSE Append(ms, [key |-> key, val |-> val])

\* `key in dict`
HasKey(d, key) == \E i \in 1..Len(d.members) : d.members[i].key = key

\* dict[key], for a key that is present
Get(d, key) ==
    d.members[CHOOSE i \in 1..Len(d.members) : d.members[i].key = key].val

Digits == {"0", "1", "2", "3", "4", "5", "6", "7", "8", "9"}

DigitVal(c) ==
    CASE c = "0" -> 0 [] c = "1" -> 1 [] c = "2" -> 2 [] c = "3" -> 3
      [] c = "4" -> 4 [] c = "5" -> 5 [] c = "6" -> 6 [] c = "7" -> 7
      [] c = "8" -> 8 [] c = "9" -> 9

RECURSIVE DigitsToInt(_)
DigitsToInt(ds) ==
    IF ds = << >> THEN 0
    ELSE 10 * DigitsToInt(SubSeq(ds, 1, Len(ds) - 1)) + DigitVal(ds[Len(ds)])

ParseFail == [ok |-> FALSE, val |-> NullValue, next |-> 0]

ParseOk(v, n) == [ok |-> TRUE, val |-> v, next |-> n]

\* first 1-based position >= i that holds no whitespace (Len + 1 at the end)
SkipWs(t, i) ==
    LET rest == {j \in i..Len(t) : t[j] \notin Whitespace}
    IN  IF rest = {} THEN Len(t) + 1 ELSE Min(rest)

\* a string literal opening at t[i]; a control character inside is rejected
ParseString(t, i) ==
    LET closes == {k \in (i + 1)..Len(t) : t[k] = "quote"}
    IN  IF closes = {} THEN ParseFail
        ELSE LET k == Min(closes)
                 body == SubSeq(t, i + 1, k - 1)
             IN  IF \E m \in 1..Len(body) : body[m] = "nl" THEN ParseFail
                 ELSE ParseOk(StrValue(body), k + 1)

\* an integer literal: -? (0 | [1-9][0-9]*)
ParseNumber(t, i) ==
    LET neg == t[i] = "-"
        j   == IF neg THEN i + 1 ELSE i
    IN  IF j > Len(t) \/ t[j] \notin Digits THEN ParseFail
        ELSE IF t[j] = "0" THEN ParseOk(NumValue(0), j + 1)
        ELSE LET stops == {k \in j..Len(t) : t[k] \notin Digits}
                 e == IF stops = {} THEN Len(t) + 1 ELSE Min(stops)
                 n == DigitsToInt(SubSeq(t, j, e - 1))
             IN  ParseOk(NumValue(IF neg THEN 0 - n ELSE n), e)

RECURSIVE ParseValue(_, _), ParseMembers(_, _, _), ParseElements(_, _, _)

ParseValue(t, i) ==
    IF i > Len(t) THEN ParseFail
    ELSE CASE t[i] = "quote" -> ParseString(t, i)
           [] t[i] = "{" ->
                LET j == SkipWs(t, i + 1)
                IN  IF j <= Len(t) /\ t[j] = "}"
                    THEN ParseOk(ObjValue(<< >>), j + 1)
                    ELSE ParseMembers(t, j, << >>)
           [] t[i] = "[" ->
                LET j == SkipWs(t, i + 1)
                IN  IF j <= Len(t) /\ t[j] = "]"
                    THEN ParseOk(ArrValue(<< >>), j + 1)
                    ELSE ParseElements(t, j, << >>)
           [] t[i] = "null" -> ParseOk(NullValue, i + 1)
           [] t[i] = "true" -> ParseOk(BoolValue(TRUE), i + 1)
           [] t[i] = "false" -> ParseOk(BoolValue(FALSE), i + 1)
           [] t[i] \in Digits \cup {"-"} -> ParseNumber(t, i)
           [] OTHER -> ParseFail

\* the members of an object from position i (a key is expected there)
ParseMembers(t, i, acc) ==
    IF i > Len(t) \/ t[i] # "quote" THEN ParseFail
    ELSE LET k == ParseString(t, i)
         IN  IF ~k.ok THEN ParseFail
             ELSE LET c == SkipWs(t, k.next)
                  IN  IF c > Len(t) \/ t[c] # ":" THEN ParseFail
                      ELSE LET v == ParseValue(t, SkipWs(t, c + 1))
                           IN  IF ~v.ok THEN ParseFail
                               ELSE LET acc2 == Put(acc, k.val.str, v.val)
                                        e == SkipWs(t, v.next)
                                    IN  IF e > Len(t) THEN ParseFail
                                        ELSE IF t[e] = "}"
                                        THEN ParseOk(ObjValue(acc2), e + 1)
                                        ELSE IF t[e] = ","
                                        THEN ParseMembers(t, SkipWs(t, e + 1), acc2)
                                        ELSE ParseFail

\* the elements of an array from position i (a value is expected there)
ParseElements(t, i, acc) ==
    LET v == ParseValue(t, i)
    IN  IF ~v.ok THEN ParseFail
        ELSE LET acc2 == Append(acc, v.val)
                 e == SkipWs(t, v.next)
             IN  IF e > Len(t) THEN ParseFail
                 ELSE IF t[e] = "]" THEN ParseOk(ArrValue(acc2), e + 1)
                 ELSE IF t[e] = "," THEN ParseElements(t, SkipWs(t, e + 1), acc2)
                 ELSE ParseFail

\* json.loads(s): ok = FALSE stands for json.JSONDecodeError
JsonLoads(s) ==
    LET r == ParseValue(s, SkipWs(s, 1))
    IN  IF ~r.ok THEN ParseFail
        ELSE IF SkipWs(s, r.next) = Len(s) + 1 THEN r
        ELSE ParseFail

---------------------------------------------------------------------------
(* ImageAnalysisAgent._parse_analysis_response                              *)

FENCE == <<"tick", "tick", "tick">>

FENCE_JSON == FENCE \o <<"j", "s", "o", "n">>

\* the number of characters of a reply kept in raw_response
RAW_LIMIT == 500

REQUIRED_FIELDS ==
    <<"provider", "detected_components", "complexity", "estimated_monthly_cost">>

\* SelectPayload with the two fence branches tried in the other order
SelectPayloadGenericFirst(response_text_) ==
    IF Contains(response_text_, FENCE)
    THEN LET start == Find(response_text_, FENCE, 0) + 3
             end   == Find(response_text_, FENCE, start)
         IN  Strip(Slice(response_text_, start, end))
    ELSE Strip(response_text_)

\* lines 175-187: the payload handed to json.loads
SelectPayload(response_text_) ==
    IF Contains(response_text_, FENCE_JSON)
    THEN LET start == Find(response_text_, FENCE_JSON, 0) + 7
             end   == Find(response_text_, FENCE, start)
         IN  Strip(Slice(response_text_, start, end))
    ELSE IF Contains(response_text_, FENCE)
    THEN LET start == Find(response_text_, FENCE, 0) + 3
             end   == Find(response_text_, FENCE, start)
         IN  Strip(Slice(response_text_, start, end))
    ELSE Strip(response_text_)

\* DefaultResult keeping the whole reply in raw_response
DefaultResultWholeReply(response_text_) ==
    ObjValue(<<
        [key |-> <<"provider">>, val |-> StrValue(<<"aws">>)],
        [key |-> <<"detected_components">>, val |-> ArrValue(<< >>)],
        [key |-> <<"complexity">>, val |-> StrValue(<<"medium">>)],
        [key |-> <<"estimated_monthly_cost">>, val |-> NumValue(0)],
        [key |-> <<"connections">>, val |-> ArrValue(<< >>)],
        [key |-> <<"error">>, val |-> StrValue(<<"Failed to parse AI response">>)],
        [key |-> <<"raw_response">>, val |-> StrValue(response_text_)] >>)

\* lines 206-215: the default structure returned on json.JSONDecodeError
DefaultResult(response_text_) ==
    ObjValue(<<
        [key |-> <<"provider">>, val |-> StrValue(<<"aws">>)],
        [key |-> <<"detected_components">>, val |-> ArrValue(<< >>)],
        [key |-> <<"complexity">>, val |-> StrValue(<<"medium">>)],
        [key |-> <<"estimated_monthly_cost">>, val |-> NumValue(0)],
        [key |-> <<"connections">>, val |-> ArrValue(<< >>)],
        [key |-> <<"error">>, val |-> StrValue(<<"Failed to parse AI response">>)],
        [key |-> <<"raw_response">>,
         val |-> StrValue(Slice(response_text_, 0, RAW_LIMIT))] >>)

\* `field in data` for the value kinds that support it
FieldIn(field, data) ==
    CASE data.kind = "obj" -> HasKey(data, <<field>>)
      [] data.kind = "arr" ->
            \E i \in 1..Len(data.items) : data.items[i] = StrValue(<<field>>)
      [] data.kind = "str" -> Contains(data.str, <<field>>)
      [] OTHER -> FALSE

\* lines 193-196: "ok", or the exception the loop ends with
ValidateRequired(data) ==
    IF data.kind \in {"num", "bool", "null"} THEN "TypeError"
    ELSE IF \E i \in 1..Len(REQUIRED_FIELDS) : ~FieldIn(REQUIRED_FIELDS[i], data)
    THEN "ValueError"
    ELSE "ok"

\* line 198: the f-string reads data['provider'].upper(),
\* len(data['detected_components']) and data['estimated_monthly_cost']
LogSummary(data) ==
    IF data.kind # "obj" THEN "TypeError"
    ELSE IF Get(data, <<"provider">>).kind # "str" THEN "AttributeError"
    ELSE IF Get(data, <<"detected_components">>).kind \notin {"str", "arr", "obj"}
    THEN "TypeError"
    ELSE "ok"

Returned(v) == [outcome |-> "return", exc |-> "", value |-> v]

Raised(e) == [outcome |-> "raise", exc |-> e, value |-> NullValue]

NoResult == [outcome |-> "none", exc |-> "", value |-> NullValue]

\* lines 170-215; only json.JSONDecodeError is caught
ParseAnalysisResponse(response_text_) ==
    LET data == JsonLoads(SelectPayload(response_text_))
    IN  IF ~data.ok THEN Returned(DefaultResult(response_text_))
        ELSE IF ValidateRequired(data.val) # "ok"
        THEN Raised(ValidateRequired(data.val))
        ELSE IF LogSummary(data.val) # "ok" THEN Raised(LogSummary(data.val))
        ELSE Returned(data.val)

---------------------------------------------------------------------------
(* Replies of the model: the JSON structure the prompt asks for, and the   *)
(* ways a reply departs from it.                                            *)

RECURSIVE Join(_)
Join(ss) ==
    IF ss = << >> THEN << >>
    ELSE IF Len(ss) = 1 THEN Head(ss)
    ELSE Head(ss) \o <<",">> \o Join(Tail(ss))

Lit(w) == <<"quote", w, "quote">>

Member(k, v) == Lit(k) \o <<":">> \o v

ObjText(ms) == <<"{">> \o Join(ms) \o <<"}">>

ArrText(xs) == <<"[">> \o Join(xs) \o <<"]">>

CompLB ==
    ObjText(<<Member("type", Lit("load_balancer")),
              Member("service_name", Lit("Application Load Balancer")),
              Member("confidence", <<"9", "5">>),
              Member("category", Lit("network"))>>)

CompDB ==
    ObjText(<<Member("type", Lit("database")),
              Member("service_name", Lit("RDS")),
              Member("confidence", <<"6", "0">>)>>)

CompNoConfidence ==
    ObjText(<<Member("type", Lit("cache")),
              Member("service_name", Lit("ElastiCache"))>>)

MProvider == Member("provider", Lit("aws"))

MComponents(xs) == Member("detected_components", ArrText(xs))

MComplexity == Member("complexity", Lit("low"))

MCost == Member("estimated_monthly_cost", <<"1", "2", "0">>)

PayloadTwoComponents ==
    ObjText(<<MProvider, MComponents(<<CompLB, CompDB>>), MComplexity, MCost,
              Member("architecture_pattern", Lit("three-tier"))>>)

PayloadNoComponents ==
    ObjText(<<MProvider, MComponents(<< >>), MComplexity,
              Member("estimated_monthly_cost", <<"0">>)>>)

PayloadNoConfidence ==
    ObjText(<<MProvider, MComponents(<<CompNoConfidence>>), MComplexity, MCost>>)

\* a string value that holds a fence marker
PayloadFenceInside ==
    ObjText(<<MProvider, MComponents(<<CompLB>>), MComplexity, MCost,
              Member("architecture_pattern", <<"quote">> \o FENCE \o <<"quote">>)>>)

PayloadProviderNumber ==
    ObjText(<<Member("provider", <<"1">>), MComponents(<<CompLB>>), MComplexity,
              MCost>>)

PayloadComponentsNumber ==
    ObjText(<<MProvider, Member("detected_components", <<"5">>), MComplexity,
              MCost>>)

PayloadCostText ==
    ObjText(<<MProvider, MComponents(<<CompLB>>), MComplexity,
              Member("estimated_monthly_cost", Lit("unknown"))>>)

PayloadTwoKeys == ObjText(<<MProvider, MComplexity>>)

\* the four required keys, with values the prompt does not offer
PayloadOtherValues ==
    ObjText(<<Member("provider", Lit("oracle")),
              Member("detected_components", Lit("none")),
              Member("complexity", Lit("extreme")),
              Member("estimated_monthly_cost", <<"-", "5">>)>>)

CompCache ==
    ObjText(<<Member("type", Lit("cache")),
              Member("service_name", Lit("ElastiCache")),
              Member("confidence", <<"7", "0">>)>>)

PayloadThreeComponents ==
    ObjText(<<MProvider, MComponents(<<CompDB, CompLB, CompCache>>), MComplexity,
              Member("estimated_monthly_cost", <<"1", "0", "0">>)>>)

\* objects holding the four required keys
FullPayloads ==
    { PayloadTwoComponents, PayloadNoComponents, PayloadNoConfidence,
      PayloadFenceInside, PayloadProviderNumber, PayloadComponentsNumber,
      PayloadCostText, PayloadOtherValues }

\* objects lacking required keys
PartialPayloads ==
    { PayloadTwoKeys,
      ObjText(<<MComponents(<<CompLB>>), MComplexity, MCost>>),
      ObjText(<<MProvider, MComplexity, MCost>>),
      ObjText(<<MProvider, MComponents(<<CompLB>>), MCost>>),
      ObjText(<<MProvider, MComponents(<<CompLB>>), MComplexity>>),
      ObjText(<< >>) }

\* JSON documents that are no object
NonObjectPayloads ==
    { <<"1", "2">>, <<"null">>, Lit("aws"), ArrText(<< >>),
      ArrText(<<Lit("provider"), Lit("detected_components"), Lit("complexity"),
                Lit("estimated_monthly_cost")>>) }

\* text that is no JSON document
BrokenPayloads ==
    { << >>, <<"not json at all">>, <<"{">>, <<"{">> \o MProvider,
      ObjText(<<MProvider, MComplexity>>) \o <<"}">> }

Payloads == FullPayloads \cup PartialPayloads \cup NonObjectPayloads \cup BrokenPayloads

\* a payload inside a json-tagged fence, and inside an untagged fence
WrapInJsonFence(p) == FENCE_JSON \o <<"nl">> \o p \o <<"nl">> \o FENCE

WrapInGenericFence(p) == FENCE \o <<"nl">> \o p \o <<"nl">> \o FENCE

\* what may surround the payload in a reply
Wrappers == { FENCE_JSON, FENCE, <<"nl">>, <<"Here is the analysis">> }

\* at most this many wrappers around the payload, before and after together
MaxWrap == 3

\* the texts made of exactly n wrappers
RECURSIVE WrapSeqs(_)
WrapSeqs(n) ==
    IF n = 0 THEN { << >> }
    ELSE { w \o s : w \in Wrappers, s \in WrapSeqs(n - 1) }

\* <<text before the payload, text after it>>
Surroundings ==
    UNION { WrapSeqs(ab[1]) \X WrapSeqs(ab[2]) :
                ab \in { c \in (0..MaxWrap) \X (0..MaxWrap) : c[1] + c[2] <= MaxWrap } }

\* the padding lengths straddle RAW_LIMIT by this much
PadSpread == 2

Pad(n) == [i \in 1..n |-> "x"]

PaddedReplies ==
    { b \o Pad(n) :
        b \in { << >>, <<"{">>, FENCE_JSON \o ObjText(<<MProvider, MComplexity>>),
                FENCE_JSON \o <<"1">> \o FENCE },
        n \in (RAW_LIMIT - PadSpread)..(RAW_LIMIT + PadSpread) }

Replies ==
    { w[1] \o p \o w[2] : w \in Surroundings, p \in Payloads }
    \cup PaddedReplies

---------------------------------------------------------------------------
(* ImageProcessor and PIL's Image.thumbnail.                                *)

MAX_WIDTH == 1920

MAX_HEIGHT == 1920

MAX_FILE_SIZE == 10 * 1024 * 1024

SUPPORTED_FORMATS == {"PNG", "JPEG", "JPG", "WEBP"}

Abs(n) == IF n < 0 THEN 0 - n ELSE n

FloorDiv(a, b) == a \div b

CeilDiv(a, b) == IF a % b = 0 THEN a \div b ELSE (a \div b) + 1

\* Image.thumbnail((x, y)) stretching the image to the whole box
ThumbnailStretch(width, height, x, y) == { <<x, y>> }

\* Image.thumbnail((x, y)) on an image of width * height: the sizes it may be
\* left with.  preserve_aspect_ratio() keeps the side the box limits and
\* rounds the other side to the floor or the ceiling of its exact value,
\* whichever keeps the aspect ratio closer, never below 1.  The two keys are
\* compared in floating point: when they are equal as exact numbers the
\* rounding of the floats decides, and either candidate may come out.
Thumbnail(width, height, x, y) ==
    IF x >= width /\ y >= height THEN { <<width, height>> }
    ELSE IF x * height >= width * y
    THEN LET f  == FloorDiv(y * width, height)
             c  == CeilDiv(y * width, height)
             kf == Abs(width * y - f * height)
             kc == Abs(width * y - c * height)
             ns == IF kf < kc THEN {f} ELSE IF kc < kf THEN {c} ELSE {f, c}
         IN  { <<IF n < 1 THEN 1 ELSE n, y>> : n \in ns }
    ELSE LET f  == FloorDiv(x * height, width)
             c  == CeilDiv(x * height, width)
             kf == Abs(width * f - x * height) * c
             kc == Abs(width * c - x * height) * f
             ns == IF f = 0 THEN {f}
                   ELSE IF kf < kc THEN {f} ELSE IF kc < kf THEN {c} ELSE {f, c}
         IN  { <<x, IF n < 1 THEN 1 ELSE n>> : n \in ns }

\* the resize step applied to every image, whatever its size
ResizeAlways(width, height) == { <<MAX_WIDTH, MAX_HEIGHT>> }

\* the resize step halving every image
ResizeHalves(width, height) ==
    { <<Max({1, width \div 2}), Max({1, height \div 2})>> }

\* process_image lines 86-89: resize if too large; the sizes img may have
ResizeIfTooLarge(width, height) ==
    IF width > MAX_WIDTH \/ height > MAX_HEIGHT
    THEN Thumbnail(width, height, MAX_WIDTH, MAX_HEIGHT)
    ELSE { <<width, height>> }

\* process_image lines 75-83 (pdf_to_image lines 90-97): the mode of img after
\* the conversion; each branch ends in an RGB image
ConvertToRGB(mode) ==
    IF mode \in {"RGBA", "LA", "P"} THEN "RGB"      \* pasted on Image.new('RGB')
    ELSE IF mode # "RGB" THEN "RGB"                 \* img.convert('RGB')
    ELSE mode

\* the modes of PIL whose pixels carry an alpha band, or a palette that may
\* (P with a transparency entry)
AlphaModes == {"RGBA", "LA", "P", "PA"}

\* process_image lines 75-83: the colour a fully transparent pixel whose
\* colour bands hold `colour` has in img after the conversion ("none": the
\* image has no such pixel).  In the first branch the pixel is masked out of
\* the paste and the white background shows; convert('RGB') drops the alpha
\* band and keeps the colour bands.
FlattenTransparent(mode, colour) ==
    IF colour = "none" THEN "none"
    ELSE IF mode \in {"RGBA", "LA", "P"} THEN "white"
    ELSE colour

\* an image in memory or encoded; transparent is the colour shown where the
\* source had a fully transparent pixel ("none": it had none)
NoImage ==
    [present |-> FALSE, mode |-> "", width |-> 0, height |-> 0,
     transparent |-> "none"]

AnImage(mode, width, height) ==
    [present |-> TRUE, mode |-> mode, width |-> width, height |-> height,
     transparent |-> "none"]

\* img with its formerly transparent pixels shown in colour
Showing(img, colour) == [img EXCEPT !.transparent = colour]

\* str(e) of an exception raised while the image is decoded or processed
FaultMessage(fault) ==
    CASE fault = "truncated" -> "image file is truncated"
      [] fault = "memory" -> ""                     \* str(MemoryError())
      [] fault = "render" -> "Unable to get page count"
      [] OTHER -> "cannot identify image file"

\* the class of the exception the fault raises inside the try block
FaultClass(fault) ==
    CASE fault = "truncated" -> "OSError"
      [] fault = "memory" -> "MemoryError"
      [] fault = "render" -> "PDFPageCountError"
      [] OTHER -> "UnidentifiedImageError"

\* a handler catching the I/O errors only
CatchesOSErrorOnly(cls) == cls \in {"OSError", "UnidentifiedImageError"}

\* `except Exception as e` (process_image line 99, pdf_to_image line 107):
\* the classes it catches are the subclasses of Exception, which leaves out
\* KeyboardInterrupt, SystemExit and GeneratorExit
CatchesException(cls) ==
    cls \notin {"KeyboardInterrupt", "SystemExit", "GeneratorExit"}

\* a byte string: an image file or a PDF file, and how it decodes.  width
\* and height are pixels for an image and points for the first page of a PDF;
\* transparent is what the colour bands of its fully transparent pixels hold
\* ("none": no pixel is fully transparent).
File(kind, format, mode, width, height, size, decodes, fault, pages) ==
    [kind |-> kind, format |-> format, mode |-> mode, width |-> width,
     height |-> height, size |-> size, decodes |-> decodes, fault |-> fault,
     pages |-> pages, transparent |-> "none"]

\* file with fully transparent pixels over the colour
WithTransparent(file, colour) == [file EXCEPT !.transparent = colour]

NoFile == File("none", "", "", 0, 0, 0, FALSE, "none", 0)

\* Image.open(io.BytesIO(file_content)) succeeds
ImageOpens(file) == file.kind = "image" /\ file.decodes

\* validate_image deciding the format by the extension of the filename
ValidateImageByExtension(file, filename) ==
    IF file.size > MAX_FILE_SIZE THEN <<FALSE, "File size exceeds maximum">>
    ELSE IF filename[Len(filename)] \notin {"png", "jpg", "jpeg", "webp"}
    THEN <<FALSE, "Unsupported format">>
    ELSE <<TRUE, "">>

\* validate_image: <<is_valid, error_message>>
ValidateImage(file, filename) ==
    IF file.size > MAX_FILE_SIZE THEN <<FALSE, "File size exceeds maximum">>
    ELSE IF ~ImageOpens(file) THEN <<FALSE, "Invalid image file">>
    ELSE IF file.format \notin SUPPORTED_FORMATS THEN <<FALSE, "Unsupported format">>
    ELSE <<TRUE, "">>

\* the fault that stops process_image's try block, "none" if it completes
ProcessImageFault(file) ==
    IF ~ImageOpens(file) THEN "unidentified" ELSE file.fault

\* the class of the exception process_image lets through, "none" if it returns
ProcessImageRaises(file) ==
    LET fault == ProcessImageFault(file)
    IN  IF fault # "none" /\ ~CatchesException(FaultClass(fault))
        THEN FaultClass(fault) ELSE "none"

\* process_image: the pairs <<processed_bytes, error_message>> it may return
ProcessImage(file) ==
    IF ~ImageOpens(file) THEN { <<NoImage, FaultMessage("unidentified")>> }
    ELSE IF file.fault # "none" THEN { <<NoImage, FaultMessage(file.fault)>> }
    ELSE { <<Showing(AnImage(ConvertToRGB(file.mode), size[1], size[2]),
                     FlattenTransparent(file.mode, file.transparent)), "None">> :
             size \in ResizeIfTooLarge(file.width, file.height) }

---------------------------------------------------------------------------
(* PDFConverter.                                                            *)

PDF_MAX_FILE_SIZE == 20 * 1024 * 1024

RENDER_DPI == 200

\* PdfReader(io.BytesIO(file_content)) succeeds
PdfParses(file) == file.kind = "pdf" /\ file.decodes

\* validate_pdf without the page count check
ValidatePdfAnyPageCount(file, filename) ==
    IF file.size > PDF_MAX_FILE_SIZE THEN <<FALSE, "PDF size exceeds maximum">>
    ELSE IF ~PdfParses(file) THEN <<FALSE, "Invalid PDF file">>
    ELSE <<TRUE, "">>

\* validate_pdf: <<is_valid, error_message>>
ValidatePdf(file, filename) ==
    IF file.size > PDF_MAX_FILE_SIZE THEN <<FALSE, "PDF size exceeds maximum">>
    ELSE IF ~PdfParses(file) THEN <<FALSE, "Invalid PDF file">>
    ELSE IF file.pages = 0 THEN <<FALSE, "PDF has no pages">>
    ELSE <<TRUE, "">>

\* pixels of a page side of pt points rendered at RENDER_DPI (72 points = 1 inch)
RenderedPixels(pt) == (pt * RENDER_DPI + 36) \div 72

\* convert_from_bytes(pdf_content, dpi, first_page, last_page, fmt='png'):
\* the list of page images, for a file poppler renders
RenderPage(file) ==
    IF file.fault = "no_images" \/ file.pages = 0 THEN << >>
    ELSE << AnImage(file.mode, RenderedPixels(file.width), RenderedPixels(file.height)) >>

\* the fault that stops pdf_to_image's try block, "none" if it completes
PdfToImageFault(file) ==
    IF file.kind # "pdf" THEN "render"
    ELSE IF file.fault \in {"render", "memory"} THEN file.fault
    ELSE "none"

\* the class of the exception pdf_to_image lets through, "none" if it returns
PdfToImageRaises(file) ==
    LET fault == PdfToImageFault(file)
    IN  IF fault # "none" /\ ~CatchesException(FaultClass(fault))
        THEN FaultClass(fault) ELSE "none"

\* pdf_to_image: the pairs <<image_bytes, error_message>> it may return
PdfToImage(file) ==
    IF file.kind # "pdf" THEN { <<NoImage, FaultMessage("render")>> }
    ELSE IF file.fault \in {"render", "memory"}
    THEN { <<NoImage, FaultMessage(file.fault)>> }
    ELSE LET images == RenderPage(file)
         IN  IF images = << >> THEN { <<NoImage, "Could not convert PDF page 1">> }
             ELSE { <<AnImage(ConvertToRGB(images[1].mode), images[1].width,
                              images[1].height), "None">> }

---------------------------------------------------------------------------
(* Uploaded images.                                                         *)

\* widths and heights from 1 to SmallDim
SmallDim == 3

\* widths and heights from MAX_WIDTH - NearCap to MAX_WIDTH + NearCap
NearCap == 2

Dims ==
    (1..SmallDim)
    \cup ((MAX_WIDTH - NearCap)..(MAX_WIDTH + NearCap))
    \cup {1000, 1440, 2200, 2560, 3000, 3840, 4000, 4001, 5000}

Modes == {"RGB", "RGBA", "LA", "P", "PA", "L", "CMYK"}

\* what the colour bands of a fully transparent pixel may hold
Colours == {"red", "black", "white"}

ImageFile(format, mode, width, height, size, decodes, fault) ==
    File("image", format, mode, width, height, size, decodes, fault, 0)

\* a file format whose decoder yields the mode
FormatFor(mode) ==
    CASE mode = "PA" -> "TIFF" [] mode = "CMYK" -> "JPEG" [] OTHER -> "PNG"

\* the byte strings process_image is applied to
ImageInputs ==
    { ImageFile(FormatFor(m), m, w, h, 4096, TRUE, "none") :
        m \in Modes, w \in Dims, h \in Dims }
    \cup { WithTransparent(ImageFile(FormatFor(m), m,
                                     d[1], d[2], 4096, TRUE, "none"), c) :
             m \in AlphaModes, c \in Colours,
             d \in { <<2, 2>>, <<1920, 1000>>, <<4000, 3000>> } }
    \cup { ImageFile("PNG", "RGB", 4000, 3000, 4096, TRUE, f) :
             f \in {"truncated", "memory"} }
    \cup { ImageFile("", "", 0, 0, 4096, FALSE, "none") }

PdfFile(width, height, size, decodes, pages, fault) ==
    File("pdf", "PDF", "RGB", width, height, size, decodes, fault, pages)

\* the files uploaded to the analyze-image request
RequestFiles ==
    { ImageFile("PNG", m, d[1], d[2], 4096, TRUE, "none") :
        m \in {"RGB", "RGBA", "P"},
        d \in { <<800, 600>>, <<1920, 1920>>, <<4000, 3000>>, <<1000, 5000>> } }
    \cup { ImageFile("JPEG", "RGB", 800, 600, MAX_FILE_SIZE, TRUE, "none"),
           ImageFile("PNG", "RGB", 800, 600, MAX_FILE_SIZE + 1, TRUE, "none"),
           ImageFile("GIF", "P", 800, 600, 4096, TRUE, "none"),
           ImageFile("", "", 0, 0, 4096, FALSE, "none"),
           ImageFile("PNG", "RGB", 800, 600, 4096, TRUE, "truncated"),
           ImageFile("PNG", "RGB", 800, 600, 4096, TRUE, "memory") }
    \cup { PdfFile(612, 792, 4096, TRUE, 2, "none"),       \* US Letter
           PdfFile(360, 360, 4096, TRUE, 1, "none"),
           PdfFile(612, 792, 4096, TRUE, 0, "none"),
           PdfFile(0, 0, 4096, FALSE, 0, "none"),
           PdfFile(612, 792, PDF_MAX_FILE_SIZE + 1, TRUE, 1, "none"),
           PdfFile(612, 792, 4096, TRUE, 1, "render"),
           PdfFile(612, 792, 4096, TRUE, 1, "memory"),
           PdfFile(612, 792, 4096, TRUE, 1, "no_images") }

\* file.filename, split at its dots
Filenames ==
    { <<"diagram", "png">>, <<"diagram", "PDF">>, <<"diagram">>,
      <<"scan", "pdf", "png">>, <<"pdf">> }

ContentTypes == {"image/png", "application/pdf", "application/octet-stream"}

Uploads == [filename : Filenames, content_type : ContentTypes, content : RequestFiles]

\* the replies of the model to the request
RequestReplies ==
    { WrapInJsonFence(PayloadTwoComponents), PayloadTwoComponents,
      PayloadNoComponents, WrapInJsonFence(PayloadNoConfidence),
      PayloadTwoKeys, <<"not json at all">>, <<"1", "2">>,
      PayloadProviderNumber, PayloadComponentsNumber, PayloadFenceInside,
      WrapInGenericFence(PayloadCostText), << >>,
      WrapInJsonFence(PayloadThreeComponents), PayloadOtherValues }

---------------------------------------------------------------------------
(* State shared by the specifications.                                      *)

NoUpload == [filename |-> << >>, content_type |-> "", content |-> NoFile]

\* the request variables, at rest
RequestIdle ==
    /\ upload = NoUpload
    /\ image_analysis_agent = 0
    /\ constructed = 0
    /\ requests = << >>
    /\ is_valid = FALSE
    /\ error_msg = "None"
    /\ file_content = NoFile
    /\ processed_content = NoImage
    /\ proc_error = "None"
    /\ s3_url = "None"
    /\ client_image = NoImage
    /\ components = << >>
    /\ status = 0
    /\ steps = << >>

---------------------------------------------------------------------------
(* SpecParse: _parse_analysis_response applied to a reply.                  *)

InitParse ==
    /\ pc = "reply"
    /\ response_text \in Replies
    /\ json_str = << >>
    /\ analysis_result = NoResult
    /\ RequestIdle

ParseReply ==
    /\ pc = "reply"
    /\ json_str' = SelectPayload(response_text)
    /\ analysis_result' = ParseAnalysisResponse(response_text)
    /\ pc' = "parsed"
    /\ UNCHANGED <<process, requests, upload, is_valid, error_msg, file_content,
                   processed_content, proc_error, s3_url, client_image,
                   response_text, components, status, steps>>

NextParse == ParseReply

SpecParse == InitParse /\ [][NextParse]_vars

---------------------------------------------------------------------------
(* SpecImage: process_image applied to a byte string.                       *)

InitImage ==
    /\ pc = "given"
    /\ upload = NoUpload
    /\ image_analysis_agent = 0
    /\ constructed = 0
    /\ requests = << >>
    /\ is_valid = FALSE
    /\ error_msg = "None"
    /\ file_content \in ImageInputs
    /\ processed_content = NoImage
    /\ proc_error = "None"
    /\ s3_url = "None"
    /\ client_image = NoImage
    /\ response_text = << >>
    /\ json_str = << >>
    /\ analysis_result = NoResult
    /\ components = << >>
    /\ status = 0
    /\ steps = << >>

CallProcessImage ==
    /\ pc = "given"
    /\ IF ProcessImageRaises(file_content) # "none"
       THEN pc' = "raised" /\ UNCHANGED <<processed_content, proc_error>>
       ELSE /\ \E r \in ProcessImage(file_content) :
                   /\ processed_content' = r[1]
                   /\ proc_error' = r[2]
            /\ pc' = "processed"
    /\ UNCHANGED <<process, requests, upload, is_valid, error_msg, file_content, s3_url,
                   client_image, response_text, json_str, analysis_result,
                   components, status, steps>>

\* lines 92-94 and line 72: the PNG written by img.save(output, format='PNG'),
\* as Image.open reads it back.  PNG stores an RGB image as it is, and an RGB
\* image has no transparent pixel.
ReadBack(img) ==
    ImageFile("PNG", img.mode, img.width, img.height, 4096, TRUE, "none")

\* process_image is given the bytes it returned
ProcessAgain ==
    /\ pc = "processed"
    /\ processed_content.present
    /\ steps = << >>
    /\ file_content' = ReadBack(processed_content)
    /\ processed_content' = NoImage
    /\ proc_error' = "None"
    /\ steps' = <<"process_image">>
    /\ pc' = "given"
    /\ UNCHANGED <<process, requests, upload, is_valid, error_msg, s3_url, client_image,
                   response_text, json_str, analysis_result, components,
                   status>>

NextImage == CallProcessImage \/ ProcessAgain

SpecImage == InitImage /\ [][NextImage]_vars

---------------------------------------------------------------------------
(* SpecFiles: the validators and the converters applied to a byte string.   *)

\* file sizes from each ceiling - SizeSpread to each ceiling + SizeSpread
SizeSpread == 1

\* PDFs of 0 to MaxPages pages
MaxPages == 2

ImageSizes ==
    {4096} \cup ((MAX_FILE_SIZE - SizeSpread)..(MAX_FILE_SIZE + SizeSpread))

PdfSizes ==
    {4096} \cup ((PDF_MAX_FILE_SIZE - SizeSpread)..(PDF_MAX_FILE_SIZE + SizeSpread))

\* the formats Image.open reports, with a mode their decoder yields
FormatsAndModes ==
    { <<"PNG", "RGBA">>, <<"JPEG", "RGB">>, <<"WEBP", "RGB">>, <<"GIF", "P">>,
      <<"TIFF", "PA">>, <<"BMP", "RGB">>, <<"MPO", "RGB">> }

\* the byte strings given to the validators and the converters
FileInputs ==
    { ImageFile(fm[1], fm[2], 800, 600, sz, TRUE, f) :
        fm \in FormatsAndModes, sz \in ImageSizes,
        f \in {"none", "truncated", "memory"} }
    \cup { ImageFile("", "", 0, 0, sz, FALSE, "none") : sz \in ImageSizes }
    \cup { PdfFile(d[1], d[2], sz, TRUE, n, f) :
             d \in { <<612, 792>>, <<1, 1>> }, sz \in PdfSizes, n \in 0..MaxPages,
             f \in {"none", "render", "memory", "no_images"} }
    \cup { PdfFile(0, 0, sz, FALSE, 0, "none") : sz \in PdfSizes }

InitFiles ==
    /\ pc = "given"
    /\ image_analysis_agent = 0
    /\ constructed = 0
    /\ requests = << >>
    /\ \E fn \in Filenames, f \in FileInputs :
          /\ upload = [filename |-> fn, content_type |-> "", content |-> f]
          /\ file_content = f
    /\ is_valid = FALSE
    /\ error_msg = "None"
    /\ processed_content = NoImage
    /\ proc_error = "None"
    /\ s3_url = "None"
    /\ client_image = NoImage
    /\ response_text = << >>
    /\ json_str = << >>
    /\ analysis_result = NoResult
    /\ components = << >>
    /\ status = 0
    /\ steps = << >>

CallValidateImage ==
    /\ pc = "given"
    /\ error_msg = "None"
    /\ is_valid' = ValidateImage(file_content, upload.filename)[1]
    /\ error_msg' = ValidateImage(file_content, upload.filename)[2]
    /\ steps' = Append(steps, "validate_image")
    /\ UNCHANGED <<process, requests, pc, upload, file_content, processed_content, proc_error,
                   s3_url, client_image, response_text, json_str,
                   analysis_result, components, status>>

CallValidatePdf ==
    /\ pc = "given"
    /\ error_msg = "None"
    /\ is_valid' = ValidatePdf(file_content, upload.filename)[1]
    /\ error_msg' = ValidatePdf(file_content, upload.filename)[2]
    /\ steps' = Append(steps, "validate_pdf")
    /\ UNCHANGED <<process, requests, pc, upload, file_content, processed_content, proc_error,
                   s3_url, client_image, response_text, json_str,
                   analysis_result, components, status>>

CallPdfToImage ==
    /\ pc = "given"
    /\ IF PdfToImageRaises(file_content) # "none"
       THEN pc' = "raised" /\ UNCHANGED <<processed_content, proc_error>>
       ELSE /\ \E r \in PdfToImage(file_content) :
                   /\ processed_content' = r[1]
                   /\ proc_error' = r[2]
            /\ pc' = "converted"
    /\ UNCHANGED <<process, requests, upload, is_valid, error_msg, file_content, s3_url,
                   client_image, response_text, json_str, analysis_result,
                   components, status, steps>>

NextFiles ==
    \/ CallValidateImage
    \/ CallValidatePdf
    \/ CallProcessImage
    \/ CallPdfToImage

SpecFiles == InitFiles /\ [][NextFiles]_vars

---------------------------------------------------------------------------
(* main.py: analyze_architecture_image.                                     *)

\* str.lower() on the extensions that occur
Lower(w) ==
    CASE w = "PDF" -> "pdf" [] w = "Pdf" -> "pdf" [] w = "PNG" -> "png"
      [] OTHER -> w

\* line 453: file.filename.split('.')[-1].lower() if '.' in file.filename else ''
FileExtension(filename) ==
    IF Len(filename) > 1 THEN Lower(filename[Len(filename)]) ELSE ""

\* the path chosen by the declared content type alone
IsPdfByContentType(up) == up.content_type = "application/pdf"

\* line 456
IsPdf(up) == FileExtension(up.filename) = "pdf" \/ up.content_type = "application/pdf"

\* `if pdf_error:` / `if img_error:`: None and '' are falsy
Truthy(error) == error \notin {"None", ""}

\* the elements a for loop over a JSON value visits (a str yields its
\* characters, a dict its keys)
Iterate(v) ==
    CASE v.kind = "arr" -> v.items
      [] v.kind = "str" -> [i \in 1..Len(v.str) |-> StrValue(<<v.str[i]>>)]
      [] v.kind = "obj" -> [i \in 1..Len(v.members) |-> StrValue(v.members[i].key)]
      [] OTHER -> << >>

\* every component given the whole cost, in hundredths
ComponentCostUndivided(total, n) == total * 100

\* line 522: round(total / n, 2), in hundredths.  round() rounds the float
\* total / n to the nearest hundredth and a tie to the even one.  For an
\* integer total and n not a multiple of 5 a tie is an odd multiple of 1/8,
\* which the float holds exactly.
ComponentCost(total, n) ==
    LET q == (total * 100) \div n
        r == (total * 100) % n
    IN  IF 2 * r < n THEN q
        ELSE IF 2 * r > n THEN q + 1
        ELSE IF q % 2 = 0 THEN q ELSE q + 1

\* lines 517-525: "ok", or the exception building the dict of comp raises
ComponentError(result, comp) ==
    IF comp.kind # "obj" THEN "TypeError"
    ELSE IF ~HasKey(comp, <<"type">>) THEN "KeyError"
    ELSE IF ~HasKey(comp, <<"service_name">>) THEN "KeyError"
    ELSE IF Get(result, <<"estimated_monthly_cost">>).kind \notin {"num", "bool"}
    THEN "TypeError"
    ELSE IF ~HasKey(comp, <<"confidence">>) THEN "KeyError"
    ELSE "ok"

\* lines 517-525: the dict appended for comp at 0-based index idx
UiComponent(result, comp, idx, n) ==
    [id         |-> <<Get(comp, <<"type">>), idx + 1>>,
     name       |-> Get(comp, <<"service_name">>),
     category   |-> IF HasKey(comp, <<"category">>) THEN Get(comp, <<"category">>)
                    ELSE StrValue(<<"compute">>),
     type       |-> Get(comp, <<"type">>),
     cost       |-> ComponentCost(Get(result, <<"estimated_monthly_cost">>).num,
                                  IF n > 1 THEN n ELSE 1),
     confidence |-> Get(comp, <<"confidence">>)]

\* the transform leaving out the components of confidence below 70
TransformComponentsConfident(result) ==
    LET detected == Iterate(Get(result, <<"detected_components">>))
        bad == {i \in 1..Len(detected) : ComponentError(result, detected[i]) # "ok"}
        kept == SelectSeq(detected, LAMBDA c : Get(c, <<"confidence">>).num >= 70)
    IN  IF bad # {}
        THEN [error |-> ComponentError(result, detected[Min(bad)]), list |-> << >>]
        ELSE [error |-> "ok",
              list |-> [i \in 1..Len(kept) |->
                          UiComponent(result, kept[i], i - 1, Len(detected))]]

\* lines 515-525: [error |-> "ok" or the exception, list |-> components]
TransformComponents(result) ==
    LET detected == Iterate(Get(result, <<"detected_components">>))
        bad == {i \in 1..Len(detected) : ComponentError(result, detected[i]) # "ok"}
    IN  IF bad # {}
        THEN [error |-> ComponentError(result, detected[Min(bad)]), list |-> << >>]
        ELSE [error |-> "ok",
              list |-> [i \in 1..Len(detected) |->
                          UiComponent(result, detected[i], i - 1, Len(detected))]]

S3_URL == "s3://bucket/diagrams/key"

\* The request starts with the upload received.
Init ==
    /\ pc = "start"
    /\ upload \in Uploads
    /\ image_analysis_agent = 0
    /\ constructed = 0
    /\ requests = << >>
    /\ is_valid = FALSE
    /\ error_msg = "None"
    /\ file_content = NoFile
    /\ processed_content = NoImage
    /\ proc_error = "None"
    /\ s3_url = "None"
    /\ client_image = NoImage
    /\ response_text = << >>
    /\ json_str = << >>
    /\ analysis_result = NoResult
    /\ components = << >>
    /\ status = 0
    /\ steps = << >>

\* a handler without the `except HTTPException: raise` clause: the 400 is
\* caught as an Exception and answered as 500
RespondWithoutPassThrough(code) ==
    status' = (IF code = 400 THEN 500 ELSE code) /\ pc' = "done"

\* raise HTTPException(status_code=code): the request ends
Respond(code) == status' = code /\ pc' = "done"

\* line 452: file_content = await file.read()
ReadUpload ==
    /\ pc = "start"
    /\ file_content' = upload.content
    /\ pc' = "read"
    /\ UNCHANGED <<process, requests, upload, is_valid, error_msg, processed_content, proc_error,
                   s3_url, client_image, response_text, json_str,
                   analysis_result, components, status, steps>>

\* lines 458-470: the PDF path
PreparePdf ==
    /\ pc = "read"
    /\ IsPdf(upload)
    /\ is_valid' = ValidatePdf(file_content, upload.filename)[1]
    /\ error_msg' = ValidatePdf(file_content, upload.filename)[2]
    /\ IF ~ValidatePdf(file_content, upload.filename)[1]
       THEN /\ Respond(400)
            /\ steps' = steps \o <<"validate_pdf">>
            /\ UNCHANGED <<processed_content, proc_error>>
       ELSE IF PdfToImageRaises(file_content) # "none"
       THEN /\ Respond(500)                       \* lines 558-560
            /\ steps' = steps \o <<"validate_pdf", "pdf_to_image">>
            /\ UNCHANGED <<processed_content, proc_error>>
       ELSE \E r \in PdfToImage(file_content) :
              /\ steps' = steps \o <<"validate_pdf", "pdf_to_image">>
              /\ proc_error' = r[2]
              /\ IF Truthy(r[2])
                 THEN Respond(400) /\ UNCHANGED processed_content
                 ELSE /\ processed_content' = r[1]
                      /\ pc' = "prepared"
                      /\ UNCHANGED status
    /\ UNCHANGED <<process, requests, upload, file_content, s3_url, client_image, response_text,
                   json_str, analysis_result, components>>

\* lines 472-484: the image path
PrepareImage ==
    /\ pc = "read"
    /\ ~IsPdf(upload)
    /\ is_valid' = ValidateImage(file_content, upload.filename)[1]
    /\ error_msg' = ValidateImage(file_content, upload.filename)[2]
    /\ IF ~ValidateImage(file_content, upload.filename)[1]
       THEN /\ Respond(400)
            /\ steps' = steps \o <<"validate_image">>
            /\ UNCHANGED <<processed_content, proc_error>>
       ELSE IF ProcessImageRaises(file_content) # "none"
       THEN /\ Respond(500)                       \* lines 558-560
            /\ steps' = steps \o <<"validate_image", "process_image">>
            /\ UNCHANGED <<processed_content, proc_error>>
       ELSE \E r \in ProcessImage(file_content) :
              /\ steps' = steps \o <<"validate_image", "process_image">>
              /\ proc_error' = r[2]
              /\ IF Truthy(r[2])
                 THEN Respond(400) /\ UNCHANGED processed_content
                 ELSE /\ processed_content' = r[1]
                      /\ pc' = "prepared"
                      /\ UNCHANGED status
    /\ UNCHANGED <<process, requests, upload, file_content, s3_url, client_image, response_text,
                   json_str, analysis_result, components>>

\* the backup as a best effort: its exception is dropped and the request goes on
BackupToS3BestEffort ==
    /\ pc = "prepared"
    /\ steps' = Append(steps, "upload_diagram")
    /\ \/ s3_url' = S3_URL /\ pc' = "backed_up" /\ UNCHANGED status
       \/ pc' = "backed_up" /\ UNCHANGED <<s3_url, status>>
    /\ UNCHANGED <<process, requests, upload, is_valid, error_msg, file_content,
                   processed_content, proc_error, client_image, response_text,
                   json_str, analysis_result, components>>

\* lines 487-496: s3_storage.upload_diagram returns the URL or raises
BackupToS3 ==
    /\ pc = "prepared"
    /\ steps' = Append(steps, "upload_diagram")
    /\ \/ s3_url' = S3_URL /\ pc' = "backed_up" /\ UNCHANGED status
       \/ Respond(500) /\ UNCHANGED s3_url
    /\ UNCHANGED <<process, requests, upload, is_valid, error_msg, file_content,
                   processed_content, proc_error, client_image, response_text,
                   json_str, analysis_result, components>>

\* the getter building a new agent at every call
GetImageAnalysisAgentFresh(agent, count) ==
    [agent |-> count + 1, constructed |-> count + 1]

\* the agent's lines 221-226, get_image_analysis_agent, given the global and
\* the number of instances built so far: the global after the call, which is
\* the instance returned, and the number built
GetImageAnalysisAgent(agent, count) ==
    IF agent = 0
    THEN [agent |-> count + 1, constructed |-> count + 1]
    ELSE [agent |-> agent, constructed |-> count]

\* the agent calling invoke_model again when the call raised
InvokeModelWithRetry(raised) ==
    IF raised THEN <<"invoke_model", "invoke_model">> ELSE <<"invoke_model">>

\* the agent's lines 78-81 and 95-97: the calls of bedrock_client.invoke_model
\* one call of analyze_architecture_diagram makes, given whether the call
\* raised; the handler logs the exception and re-raises it
InvokeModel(raised) == <<"invoke_model">>

\* lines 501-508 and the agent's lines 43-85: base64.b64encode raises
\* TypeError on None; get_image_analysis_agent returns the agent, building
\* it at the first call, or the constructor raises and the global stays
\* None; invoke_model returns a response or raises;
\* response['body'].read() returns the whole body or raises, and
\* analysis_text is taken from the body read
AnalyzeWithAI ==
    /\ pc = "backed_up"
    /\ IF ~processed_content.present
       THEN /\ steps' = Append(steps, "encode_image_base64")
            /\ Respond(500)
            /\ UNCHANGED <<client_image, response_text, process>>
       ELSE LET got == GetImageAnalysisAgent(image_analysis_agent, constructed)
                called == Append(steps, "encode_image_base64")
            IN  \/ /\ image_analysis_agent = 0      \* ImageAnalysisAgent() raises
                   /\ steps' = called
                   /\ Respond(500)
                   /\ UNCHANGED <<client_image, response_text, process>>
                \/ /\ image_analysis_agent' = got.agent
                   /\ constructed' = got.constructed
                   /\ client_image' = processed_content
                   /\ \/ \E reply \in RequestReplies :
                            /\ steps' = called \o InvokeModel(FALSE)
                                               \o <<"body.read">>
                            /\ response_text' = reply
                            /\ pc' = "replied"
                            /\ UNCHANGED status
                      \/ /\ steps' = called \o InvokeModel(FALSE)
                                            \o <<"body.read">>
                         /\ Respond(500)
                         /\ UNCHANGED response_text
                      \/ /\ steps' = called \o InvokeModel(TRUE)
                         /\ Respond(500)
                         /\ UNCHANGED response_text
    /\ UNCHANGED <<requests, upload, is_valid, error_msg, file_content,
                   processed_content, proc_error, s3_url, json_str,
                   analysis_result, components>>

\* the agent's lines 91-97 and main.py lines 511-560: extraction, the two
\* keys added to the result, the UI transform and the response
ExtractAndRespond ==
    /\ pc = "replied"
    /\ json_str' = SelectPayload(response_text)
    /\ LET parsed == ParseAnalysisResponse(response_text)
           result == ObjValue(Put(Put(parsed.value.members,
                                      <<"s3_backup_url">>, StrValue(<<s3_url>>)),
                                  <<"original_filename">>, StrValue(upload.filename)))
           ui == TransformComponents(result)
       IN  IF parsed.outcome = "raise"
           THEN /\ analysis_result' = parsed
                /\ steps' = Append(steps, "_parse_analysis_response")
                /\ components' = << >>
                /\ Respond(500)
           ELSE /\ analysis_result' = Returned(result)
                /\ steps' = steps \o <<"_parse_analysis_response", "transform">>
                /\ components' = ui.list
                /\ Respond(IF ui.error = "ok" THEN 200 ELSE 500)
    /\ UNCHANGED <<process, requests, upload, is_valid, error_msg, file_content,
                   processed_content, proc_error, s3_url, client_image,
                   response_text>>

Next ==
    \/ ReadUpload
    \/ PreparePdf
    \/ PrepareImage
    \/ BackupToS3
    \/ AnalyzeWithAI
    \/ ExtractAndRespond

Spec == Init /\ [][Next]_vars

---------------------------------------------------------------------------
(* SpecRequests: analyze-image requests served concurrently by one event    *)
(* loop.  The handler is a coroutine with a single await, at line 452:      *)
(* requests interleave there, and from line 453 to the response a request   *)
(* runs without yielding.                                                   *)

\* requests 1 to MaxRequests are in flight
MaxRequests == 2

Requests == 1..MaxRequests

\* What the handler answers and what it leaves behind: the response, the
\* reply it got from the model, and whether get_image_analysis_agent was
\* not called ("none"), raised or returned.
Outcome(code, result, comps, url, reply, call) ==
    [status |-> code, analysis_result |-> result, components |-> comps,
     s3_url |-> url, reply |-> reply, agent_call |-> call]

NoOutcome == Outcome(0, NoResult, << >>, "None", << >>, "none")

\* lines 510-554: the response to the reply
RespondTo(up, url, reply) ==
    LET parsed == ParseAnalysisResponse(reply)
        result == ObjValue(Put(Put(parsed.value.members,
                                   <<"s3_backup_url">>, StrValue(<<url>>)),
                               <<"original_filename">>, StrValue(up.filename)))
        ui == TransformComponents(result)
    IN  IF parsed.outcome = "raise"
        THEN Outcome(500, parsed, << >>, url, reply, "returned")
        ELSE Outcome(IF ui.error = "ok" THEN 200 ELSE 500, Returned(result),
                     ui.list, url, reply, "returned")

\* lines 453-560: the ways the handler of upload up, having read content,
\* may end when the model answers with one of replies
HandlerOutcomes(up, content, replies) ==
    LET valid == IF IsPdf(up) THEN ValidatePdf(content, up.filename)[1]
                 ELSE ValidateImage(content, up.filename)[1]
        raises == IF IsPdf(up) THEN PdfToImageRaises(content)
                  ELSE ProcessImageRaises(content)
        converted == IF IsPdf(up) THEN PdfToImage(content)
                     ELSE ProcessImage(content)
        Failed(code, url, call) ==
            Outcome(code, NoResult, << >>, url, << >>, call)
    IN  IF ~valid THEN { Failed(400, "None", "none") }
        ELSE IF raises # "none" THEN { Failed(500, "None", "none") }
        ELSE UNION {
               IF Truthy(r[2]) THEN { Failed(400, "None", "none") }
               ELSE { Failed(500, "None", "none") }       \* upload_diagram raised
                    \cup IF ~r[1].present
                         THEN { Failed(500, S3_URL, "none") }  \* b64encode(None)
                         ELSE { Failed(500, S3_URL, "raised"),
                                Failed(500, S3_URL, "returned") }
                              \cup { RespondTo(up, S3_URL, reply) :
                                       reply \in replies }
               : r \in converted }

\* the uploads and the replies of the concurrent requests
ConcurrentUploads ==
    { [filename |-> <<"diagram", "png">>, content_type |-> "image/png",
       content |-> ImageFile("PNG", "RGB", 800, 600, 4096, TRUE, "none")],
      [filename |-> <<"diagram", "PDF">>, content_type |-> "application/pdf",
       content |-> PdfFile(612, 792, 4096, TRUE, 2, "none")],
      [filename |-> <<"diagram">>, content_type |-> "application/octet-stream",
       content |-> ImageFile("GIF", "P", 800, 600, 4096, TRUE, "none")] }

ConcurrentReplies ==
    { WrapInJsonFence(PayloadTwoComponents), PayloadNoComponents,
      <<"not json at all">> }

\* all requests writing the locals of the first: variables of the module
\* in place of locals of the call
FrameOfModule(r) == 1

\* lines 442-554: the frame holding the locals of the handler of request r;
\* every call of the coroutine has its own
Frame(r) == r

InitRequests ==
    /\ pc = "serving"
    /\ image_analysis_agent = 0
    /\ constructed = 0
    /\ requests \in [Requests -> { [pc |-> "start", upload |-> up,
                                     file_content |-> NoFile, agent |-> 0,
                                     response |-> NoOutcome] :
                                    up \in ConcurrentUploads }]
    /\ upload = NoUpload
    /\ is_valid = FALSE
    /\ error_msg = "None"
    /\ file_content = NoFile
    /\ processed_content = NoImage
    /\ proc_error = "None"
    /\ s3_url = "None"
    /\ client_image = NoImage
    /\ response_text = << >>
    /\ json_str = << >>
    /\ analysis_result = NoResult
    /\ components = << >>
    /\ status = 0
    /\ steps = << >>

\* line 452: file_content = await file.read(); the coroutine yields here
ReceiveUpload(r) ==
    /\ requests[r].pc = "start"
    /\ requests' = [requests EXCEPT
                      ![Frame(r)].file_content = requests[r].upload.content,
                      ![r].pc = "read"]
    /\ UNCHANGED <<pc, upload, is_valid, error_msg, file_content,
                   processed_content, proc_error, s3_url, client_image,
                   response_text, json_str, analysis_result, components,
                   status, steps, process>>

\* lines 453-560: the rest of the handler, run without yielding
HandleUpload(r) ==
    /\ requests[r].pc = "read"
    /\ \E out \in HandlerOutcomes(requests[r].upload,
                                  requests[Frame(r)].file_content,
                                  ConcurrentReplies) :
          LET got == GetImageAnalysisAgent(image_analysis_agent, constructed)
          IN  /\ out.agent_call = "raised" => image_analysis_agent = 0
              /\ IF out.agent_call = "returned"
                 THEN /\ image_analysis_agent' = got.agent
                      /\ constructed' = got.constructed
                 ELSE UNCHANGED process
              /\ requests' = [requests EXCEPT
                                ![r].pc = "done",
                                ![r].agent = IF out.agent_call = "returned"
                                             THEN got.agent ELSE 0,
                                ![r].response = out]
    /\ UNCHANGED <<pc, upload, is_valid, error_msg, file_content,
                   processed_content, proc_error, s3_url, client_image,
                   response_text, json_str, analysis_result, components,
                   status, steps>>

NextRequests == \E r \in Requests : ReceiveUpload(r) \/ HandleUpload(r)

SpecRequests == InitRequests /\ [][NextRequests]_vars

---------------------------------------------------------------------------
(* Claims about _parse_analysis_response, checked under SpecParse.          *)

\* the selected payload decodes to an object
PayloadIsObject == JsonLoads(json_str).ok /\ JsonLoads(json_str).val.kind = "obj"

\* the selected payload decodes to an object that lacks a required key
PayloadLacksRequiredKey ==
    /\ PayloadIsObject
    /\ \E i \in 1..Len(REQUIRED_FIELDS) :
           ~HasKey(JsonLoads(json_str).val, <<REQUIRED_FIELDS[i]>>)

\* C1: for every reply text _parse_analysis_response returns a result and
\* raises no exception to its caller.
C1_NeverRaises == pc = "parsed" => analysis_result.outcome = "return"

\* C2: when the selected payload is valid JSON but lacks one of the four
\* required keys, the failure-shaped default result is returned.
C2_MissingKeyGivesDefault ==
    (pc = "parsed" /\ PayloadLacksRequiredKey)
        => analysis_result = Returned(DefaultResult(response_text))

\* C4: when the selected payload is no parseable JSON, the result has error
\* set, no components, complexity "medium", cost 0 and, as raw_response, the
\* first min(500, length) characters of the reply.
C4_UnparseableGivesDefault ==
    (pc = "parsed" /\ ~JsonLoads(json_str).ok) =>
        /\ analysis_result.outcome = "return"
        /\ LET r == analysis_result.value
               n == IF Len(response_text) < 500 THEN Len(response_text) ELSE 500
           IN  /\ HasKey(r, <<"error">>)
               /\ Get(r, <<"error">>).kind = "str"
               /\ Get(r, <<"error">>).str # << >>
               /\ HasKey(r, <<"detected_components">>)
               /\ Get(r, <<"detected_components">>) = ArrValue(<< >>)
               /\ HasKey(r, <<"complexity">>)
               /\ Get(r, <<"complexity">>) = StrValue(<<"medium">>)
               /\ HasKey(r, <<"estimated_monthly_cost">>)
               /\ Get(r, <<"estimated_monthly_cost">>) = NumValue(0)
               /\ HasKey(r, <<"raw_response">>)
               /\ Get(r, <<"raw_response">>).kind = "str"
               /\ Len(Get(r, <<"raw_response">>).str) = n
               /\ \A i \in 1..n :
                      Get(r, <<"raw_response">>).str[i] = response_text[i]

\* an unparseable reply longer than 500 characters was cut to 500
C4_Witness ==
    /\ pc = "parsed"
    /\ ~JsonLoads(json_str).ok
    /\ Len(response_text) > 500
    /\ analysis_result.outcome = "return"
    /\ Len(Get(analysis_result.value, <<"raw_response">>).str) = 500

\* C5: the result of a parse failure holds every list/record field of
\* DiagramAnalysisResult (detected_components, connections, recommendations,
\* architecture_pattern) with an empty default, with error and the raw text.
C5_FailureHasFullShape ==
    (pc = "parsed" /\ ~JsonLoads(json_str).ok) =>
        /\ analysis_result.outcome = "return"
        /\ LET r == analysis_result.value
           IN  /\ HasKey(r, <<"error">>)
               /\ HasKey(r, <<"raw_response">>)
               /\ HasKey(r, <<"detected_components">>)
               /\ Get(r, <<"detected_components">>) = ArrValue(<< >>)
               /\ HasKey(r, <<"connections">>)
               /\ Get(r, <<"connections">>) = ArrValue(<< >>)
               /\ HasKey(r, <<"recommendations">>)
               /\ HasKey(r, <<"architecture_pattern">>)

\* a JSON object with the four required keys
IsValidPayload(p) ==
    /\ JsonLoads(p).ok
    /\ JsonLoads(p).val.kind = "obj"
    /\ \A i \in 1..Len(REQUIRED_FIELDS) :
           HasKey(JsonLoads(p).val, <<REQUIRED_FIELDS[i]>>)

\* C6: a valid payload extracted from a json-tagged fence, from an untagged
\* fence and unwrapped gives three identical results.
C6_WrappingsAgree ==
    (pc = "parsed" /\ IsValidPayload(response_text)) =>
        /\ ParseAnalysisResponse(WrapInJsonFence(response_text)) = analysis_result
        /\ ParseAnalysisResponse(WrapInGenericFence(response_text)) = analysis_result

\* pat occurs in t at 1-based position i
OccursAt(t, pat, i) ==
    /\ i + Len(pat) - 1 <= Len(t)
    /\ \A k \in 1..Len(pat) : t[i + k - 1] = pat[k]

JsonFenceAt == {i \in 1..Len(response_text) : OccursAt(response_text, FENCE_JSON, i)}

FenceAt == {i \in 1..Len(response_text) : OccursAt(response_text, FENCE, i)}

\* C7: the payload is chosen in strict order: the (trimmed) text between the
\* first json-tagged fence-open and the next fence-close if a json-tagged
\* fence occurs anywhere, even after an untagged fence; else the text between
\* the first untagged fence-open and the next fence-close; else, with no
\* fence at all, the whole trimmed text.
C7_FirstMatchOrder ==
    pc = "parsed" =>
        IF JsonFenceAt # {}
        THEN LET open == Min(JsonFenceAt)
                 closes == {i \in FenceAt : i >= open + 7}
             IN  closes # {} =>
                   json_str = Strip(SubSeq(response_text, open + 7, Min(closes) - 1))
        ELSE IF FenceAt # {}
        THEN LET open == Min(FenceAt)
                 closes == {i \in FenceAt : i >= open + 3}
             IN  closes # {} =>
                   json_str = Strip(SubSeq(response_text, open + 3, Min(closes) - 1))
        ELSE json_str = Strip(response_text)

\* an untagged fence precedes a closed json-tagged fence, and the payload of
\* the json-tagged fence was extracted
C7_Witness ==
    /\ pc = "parsed"
    /\ JsonFenceAt # {}
    /\ Min(FenceAt) < Min(JsonFenceAt)
    /\ \E i \in FenceAt : i >= Min(JsonFenceAt) + 7
    /\ IsValidPayload(json_str)
    /\ analysis_result = Returned(JsonLoads(json_str).val)

\* where the text after the first fence-open marker starts: after the first
\* json-tagged marker if there is one, after the first marker otherwise
AfterFenceOpen ==
    IF Contains(response_text, FENCE_JSON)
    THEN Find(response_text, FENCE_JSON, 0) + Len(FENCE_JSON)
    ELSE Find(response_text, FENCE, 0) + Len(FENCE)

\* the reply holds a fence-open marker and no fence marker after it
FenceLeftOpen ==
    /\ Contains(response_text, FENCE)
    /\ Find(response_text, FENCE, AfterFenceOpen) = -1

\* C25: when the reply holds a fence-open marker and no later fence-close
\* marker, the selected payload is the whole trimmed text after the
\* fence-open marker, and a valid payload there is extracted to the result
\* the unwrapped payload gives.
C25_UnclosedFenceTakesRest ==
    (pc = "parsed" /\ FenceLeftOpen)
    => LET rest == Strip(Slice(response_text, AfterFenceOpen, Len(response_text)))
       IN  /\ json_str = rest
           /\ IsValidPayload(rest)
                => analysis_result = ParseAnalysisResponse(rest)

\* the value fits the DiagramAnalysisResult data model
FitsDataModel(v) ==
    /\ v.kind = "obj"
    /\ Get(v, <<"provider">>) \in {StrValue(<<p>>) : p \in {"aws", "azure", "gcp"}}
    /\ Get(v, <<"complexity">>)
         \in {StrValue(<<c>>) : c \in {"low", "medium", "high"}}
    /\ Get(v, <<"estimated_monthly_cost">>).kind = "num"
    /\ Get(v, <<"estimated_monthly_cost">>).num >= 0
    /\ Get(v, <<"detected_components">>).kind = "arr"

\* C18: every result _parse_analysis_response returns has a provider among
\* aws, azure, gcp, a complexity among low, medium, high, a non-negative
\* number as estimated_monthly_cost and a sequence as detected_components.
C18_ResultFitsDataModel ==
    (pc = "parsed" /\ analysis_result.outcome = "return")
    => FitsDataModel(analysis_result.value)

---------------------------------------------------------------------------
(* Claims about process_image, checked under SpecImage.                     *)

\* C9: an image wider or taller than 1920 comes out with both sides <= 1920
\* and with its width:height ratio kept within integer rounding: the side
\* that is not set to the cap is less than one pixel from its exact value.
C9_DownscaleKeepsAspect ==
    (/\ pc = "processed"
     /\ processed_content.present
     /\ (file_content.width > 1920 \/ file_content.height > 1920)) =>
        /\ processed_content.width <= 1920
        /\ processed_content.height <= 1920
        /\ processed_content.width >= 1
        /\ processed_content.height >= 1
        /\ Abs(processed_content.width * file_content.height
                 - file_content.width * processed_content.height)
             < Max({file_content.width, file_content.height})

\* a 4000 x 3000 RGBA image came out as 1920 x 1440
C9_Witness ==
    /\ pc = "processed"
    /\ file_content.width = 4000 /\ file_content.height = 3000 /\ file_content.mode = "RGBA"
    /\ processed_content = AnImage("RGB", 1920, 1440)

\* C10: process_image never upscales: an image within 1920 x 1920 keeps its
\* dimensions exactly, and no output side is larger than the input side.
C10_NeverUpscales ==
    (pc = "processed" /\ processed_content.present) =>
        /\ (file_content.width <= 1920 /\ file_content.height <= 1920) =>
              /\ processed_content.width = file_content.width
              /\ processed_content.height = file_content.height
        /\ processed_content.width <= file_content.width
        /\ processed_content.height <= file_content.height

\* an image of exactly 1920 x 1000 came out unchanged in size
C10_Witness ==
    /\ pc = "processed"
    /\ file_content.width = 1920 /\ file_content.height = 1000
    /\ processed_content.present
    /\ processed_content.width = 1920 /\ processed_content.height = 1000

\* C11: for every input whose mode carries an alpha or transparency channel,
\* the successful output of process_image is RGB, and every fully
\* transparent pixel of the input is white in the output.
C11_AlphaFlattenedOnWhite ==
    (/\ pc = "processed"
     /\ processed_content.present
     /\ file_content.mode \in AlphaModes)
    => /\ processed_content.mode = "RGB"
       /\ file_content.transparent # "none"
            => processed_content.transparent = "white"

\* C12: process_image applied to its own output succeeds and yields an RGB
\* image of the same dimensions and the same mode.
C12_IdempotentOnOutput ==
    (pc = "processed" /\ steps # << >>)
    => /\ processed_content.present
       /\ proc_error = "None"
       /\ file_content.mode = "RGB"
       /\ processed_content.mode = "RGB"
       /\ processed_content.width = file_content.width
       /\ processed_content.height = file_content.height

\* the 1920 x 1440 output of a downscaled upload went through process_image
\* a second time
C12_Witness ==
    /\ pc = "processed"
    /\ steps = <<"process_image">>
    /\ file_content.width = 1920
    /\ file_content.height = 1440
    /\ processed_content = AnImage("RGB", 1920, 1440)

---------------------------------------------------------------------------
(* Claims about the validators and the converters, checked under SpecFiles. *)

\* the call named step has been made
Did(step) == \E i \in 1..Len(steps) : steps[i] = step

\* the payload is within the 10 MiB ceiling and decodes as PNG, JPEG or WEBP
AcceptableImage(file) ==
    /\ file.size <= 10 * 1024 * 1024
    /\ file.kind = "image" /\ file.decodes
    /\ file.format \in {"PNG", "JPEG", "WEBP"}

\* C13: validate_image returns (True, "") for every payload of at most
\* 10 MiB that decodes as PNG, JPEG or WEBP, and (False, reason) with a
\* non-empty reason for every other payload; the filename does not change
\* the decision.
C13_ValidateImageDecision ==
    Did("validate_image")
    => /\ AcceptableImage(file_content) => (is_valid /\ error_msg = "")
       /\ ~AcceptableImage(file_content)
            => (~is_valid /\ error_msg \notin {"", "None"})
       /\ \A fn \in Filenames :
             ValidateImage(file_content, fn) = <<is_valid, error_msg>>

\* a WEBP of exactly 10 MiB uploaded under a name ending in PDF is accepted
C13_Witness ==
    /\ Did("validate_image")
    /\ file_content.format = "WEBP"
    /\ file_content.size = 10 * 1024 * 1024
    /\ upload.filename = <<"diagram", "PDF">>
    /\ is_valid
    /\ error_msg = ""

\* C14: process_image and pdf_to_image never raise; each returns either
\* (bytes, None) or (None, error string), never both and never neither.
C14_ConvertersReturnPairs ==
    /\ pc # "raised"
    /\ pc \in {"processed", "converted"}
         => \/ processed_content.present /\ proc_error = "None"
            \/ ~processed_content.present /\ proc_error # "None"

\* pdf_to_image ran out of memory while rendering and returned (None, '')
C14_Witness ==
    /\ pc = "converted"
    /\ file_content.fault = "memory"
    /\ ~processed_content.present
    /\ proc_error = ""

\* what validate_pdf is to answer: ok=false with a reason for a PDF over
\* 20 MiB, one that does not parse or one of zero pages, ok=true otherwise
PdfDecisionAsStated ==
    LET reject == \/ file_content.size > 20 * 1024 * 1024
                  \/ ~(file_content.kind = "pdf" /\ file_content.decodes)
                  \/ file_content.pages = 0
    IN  Did("validate_pdf")
        => /\ reject => (~is_valid /\ error_msg \notin {"", "None"})
           /\ ~reject => is_valid

\* pdf_to_image returned a non-empty PNG and no error
ConvertedToPng ==
    /\ processed_content.present
    /\ processed_content.width >= 1
    /\ processed_content.height >= 1
    /\ proc_error = "None"

\* C15 as stated: validate_pdf rejects, with a reason, every PDF over 20 MiB,
\* every payload that does not parse as a PDF and every PDF of zero pages,
\* and accepts the others; for a PDF that passed validation, pdf_to_image
\* with page 1 returns a non-empty PNG and no error.
C15_ValidatedPdfConverts ==
    /\ PdfDecisionAsStated
    /\ (pc = "converted"
        /\ ValidatePdf(file_content, upload.filename)[1])
       => ConvertedToPng

\* C15 amended: the same decision of validate_pdf; for a PDF that passed
\* validation and whose first page pdf2image renders, pdf_to_image with
\* page 1 returns a non-empty PNG and no error, and when the rendering
\* fails it returns no bytes and an error string.
C15_RenderablePdfConverts ==
    /\ PdfDecisionAsStated
    /\ (pc = "converted"
        /\ ValidatePdf(file_content, upload.filename)[1])
       => IF file_content.fault = "none" THEN ConvertedToPng
          ELSE ~processed_content.present /\ proc_error # "None"

\* a two-page US Letter PDF was converted to a 1700 x 2200 image
C15_Witness ==
    /\ pc = "converted"
    /\ file_content.pages = 2
    /\ ValidatePdf(file_content, upload.filename)[1]
    /\ processed_content = AnImage("RGB", 1700, 2200)
    /\ proc_error = "None"

---------------------------------------------------------------------------
(* Claims about concurrent requests, checked under SpecRequests.            *)

\* C22: whatever the interleaving of concurrent requests, the response of
\* each is one its own upload and its own model reply give: no request
\* takes its analysis result, component list or backup URL from another.
C22_RequestsIsolated ==
    \A r \in DOMAIN requests :
        requests[r].pc = "done"
        => requests[r].response
             \in HandlerOutcomes(requests[r].upload, requests[r].upload.content,
                                 {requests[r].response.reply})

\* both requests are answered, each from its own upload: the first with the
\* two components of diagram.png, the second with the 400 of its GIF
C22_Witness ==
    /\ DOMAIN requests = Requests
    /\ requests[1].pc = "done" /\ requests[2].pc = "done"
    /\ requests[1].upload.filename = <<"diagram", "png">>
    /\ requests[2].upload.filename = <<"diagram">>
    /\ requests[1].response.status = 200
    /\ Len(requests[1].response.components) = 2
    /\ requests[2].response.status = 400

\* C23: over any sequence and interleaving of calls of
\* get_image_analysis_agent, at most one ImageAnalysisAgent is constructed
\* in the process and every call returns that instance.
C23_OneAgent ==
    /\ constructed <= 1
    /\ image_analysis_agent \in {0, 1}
    /\ \A r \in DOMAIN requests :
          requests[r].response.agent_call = "returned" => requests[r].agent = 1

\* two requests called the getter: one instance was built, both got it
C23_Witness ==
    /\ DOMAIN requests = Requests
    /\ requests[1].response.agent_call = "returned"
    /\ requests[2].response.agent_call = "returned"
    /\ requests[1].agent = 1 /\ requests[2].agent = 1
    /\ constructed = 1

---------------------------------------------------------------------------
(* Claims about the analyze-image request, checked under Spec.              *)

\* the positions of steps holding the call named step
Calls(step) == {i \in 1..Len(steps) : steps[i] = step}

\* the calls of a request that runs to its response, on either path
StepOrder(first, second) ==
    <<first, second, "upload_diagram", "encode_image_base64", "invoke_model",
      "body.read", "_parse_analysis_response", "transform">>

\* C24: the steps of a request occur in the order validate, normalize or
\* rasterize, storage backup, base64 encode, model call, extraction, UI
\* transform; a request whose upload failed validation makes neither the
\* backup nor the model call, and a request whose backup raised makes no
\* model call.
C24_StepsInOrder ==
    /\ \E order \in { StepOrder("validate_pdf", "pdf_to_image"),
                        StepOrder("validate_image", "process_image") } :
          /\ Len(steps) <= Len(order)
          /\ steps = SubSeq(order, 1, Len(steps))
    /\ (error_msg # "None" /\ ~is_valid)
         => (~Did("upload_diagram") /\ ~Did("invoke_model"))
    /\ (Did("upload_diagram") /\ s3_url = "None") => ~Did("invoke_model")

\* the backup raised: the request ended there, with no model call
C24_Witness ==
    /\ pc = "done"
    /\ status = 500
    /\ steps = <<"validate_image", "process_image", "upload_diagram">>
    /\ s3_url = "None"

\* C26: whenever process_image or pdf_to_image yields no image bytes, with
\* whatever error string, the request ends with 400 and makes neither the
\* storage backup nor the model call.
C26_NoBytesEndsWith400 ==
    (/\ Did("process_image") \/ Did("pdf_to_image")
     /\ ~processed_content.present)
    => /\ ~Did("upload_diagram")
       /\ ~Did("invoke_model")
       /\ pc = "done" /\ status = 400

\* C21: a request takes the PDF path if and only if the last extension of
\* the filename is "pdf" in any letter case or the declared content type is
\* application/pdf, and the image path otherwise; the validator and the
\* converter of the other path are never run.
C21_OnePathPerRequest ==
    LET name == upload.filename
        named_pdf == Len(name) > 1 /\ name[Len(name)] \in {"pdf", "PDF", "Pdf"}
        declared_pdf == upload.content_type = "application/pdf"
    IN  /\ ~(Did("validate_pdf") /\ Did("validate_image"))
        /\ pc \notin {"start", "read"}
             => IF named_pdf \/ declared_pdf
                THEN /\ Did("validate_pdf")
                     /\ ~Did("validate_image") /\ ~Did("process_image")
                ELSE /\ Did("validate_image")
                     /\ ~Did("validate_pdf") /\ ~Did("pdf_to_image")

\* a file named diagram.PDF and declared image/png went down the PDF path
C21_Witness ==
    /\ upload.filename = <<"diagram", "PDF">>
    /\ upload.content_type = "image/png"
    /\ steps = <<"validate_pdf", "pdf_to_image">>
    /\ pc = "prepared"

\* C19: every UI component gets the same cost, estimated_monthly_cost divided
\* by the number of detected components and rounded to 2 decimals (costs
\* are held in hundredths); with no detected component the list is empty
\* and the request succeeds, nothing being divided by zero.
C19_CostSplitEvenly ==
    (pc = "done" /\ Did("transform"))
    => LET result == analysis_result.value
           total == Get(result, <<"estimated_monthly_cost">>).num
           n == Len(Iterate(Get(result, <<"detected_components">>)))
       IN  /\ n = 0 => (status = 200 /\ components = << >>)
           /\ status = 200
                => /\ Len(components) = n
                   /\ \A i \in 1..Len(components) :
                         /\ 2 * Abs(100 * total - n * components[i].cost) <= n
                         /\ components[i].cost = components[1].cost

\* a cost of 100 over three components: 33.33 each
C19_Witness ==
    /\ pc = "done"
    /\ status = 200
    /\ Get(analysis_result.value, <<"estimated_monthly_cost">>) = NumValue(100)
    /\ Len(components) = 3
    /\ \A i \in 1..3 : components[i].cost = 3333

\* C20: when a payload was extracted and the request produced its response,
\* the analysis result holds the payload's detected components and
\* estimated_monthly_cost unchanged, and the UI list holds one component
\* for each detected component, in the same order, whatever its confidence.
C20_ComponentsPreserved ==
    (/\ pc = "done"
     /\ status = 200
     /\ JsonLoads(json_str).ok)
    => LET payload == JsonLoads(json_str).val
           detected == Iterate(Get(payload, <<"detected_components">>))
       IN  /\ Get(analysis_result.value, <<"detected_components">>)
                = Get(payload, <<"detected_components">>)
           /\ Get(analysis_result.value, <<"estimated_monthly_cost">>)
                = Get(payload, <<"estimated_monthly_cost">>)
           /\ Len(components) = Len(detected)
           /\ \A i \in 1..Len(components) :
                 /\ components[i].type = Get(detected[i], <<"type">>)
                 /\ components[i].name = Get(detected[i], <<"service_name">>)
                 /\ components[i].confidence = Get(detected[i], <<"confidence">>)

\* the reply of two components, one of confidence 60, with a cost of 120:
\* both components and the cost are in the response
C20_Witness ==
    /\ pc = "done"
    /\ status = 200
    /\ Len(components) = 2
    /\ components[1].type = StrValue(<<"load_balancer">>)
    /\ components[2].type = StrValue(<<"database">>)
    /\ components[2].confidence = NumValue(60)
    /\ Get(analysis_result.value, <<"estimated_monthly_cost">>) = NumValue(120)

\* C17: a failure of the remote model call ends the request with 500; a
\* rejection by a validator or a converter ends it with the 400 that was
\* raised, not with a 500.
C17_StatusOfFailures ==
    pc = "done"
    => /\ (steps # << >> /\ steps[Len(steps)] \in {"invoke_model", "body.read"})
            => status = 500
       /\ (error_msg # "None" /\ ~is_valid) => status = 400
       /\ (is_valid /\ Truthy(proc_error)) => status = 400

\* an image with a sound header and truncated pixel data passed validation,
\* was refused by process_image, and the request ended with 400
C17_Witness ==
    /\ pc = "done"
    /\ is_valid
    /\ proc_error = "image file is truncated"
    /\ status = 400

\* C16: one call of analyze_architecture_diagram invokes the remote model at
\* most once; when the invocation fails the exception reaches the caller
\* with no second attempt; and the reply is parsed only after the whole
\* response body has been read.
C16_SingleInvocation ==
    /\ Cardinality(Calls("invoke_model")) <= 1
    /\ (pc = "done" /\ steps # << >> /\ steps[Len(steps)] = "invoke_model")
         => (status = 500 /\ response_text = << >> /\ analysis_result = NoResult)
    /\ \A i \in Calls("_parse_analysis_response") :
         /\ \E j \in Calls("body.read") : j < i
         /\ \A j \in Calls("invoke_model") \cup Calls("body.read") : j < i
         /\ json_str = SelectPayload(response_text)

\* the invocation raised: the request ended with one call made and no reply
C16_Witness ==
    /\ pc = "done"
    /\ status = 500
    /\ steps[Len(steps)] = "invoke_model"
    /\ Cardinality(Calls("invoke_model")) = 1

\* C3: once the remote model call has returned a reply, whatever the reply
\* text, the request ends with a successful response that carries an
\* analysis result; no reply content leads to an exception or a 500.
C3_ReplyAlwaysSucceeds ==
    (pc = "done" /\ Did("_parse_analysis_response")) =>
        /\ status = 200
        /\ analysis_result.outcome = "return"

\* C8: every image handed to the analysis client, from the image path or
\* from the PDF path, has width <= 1920, height <= 1920 and mode RGB.
C8_ClientImageNormalized ==
    client_image.present =>
        /\ client_image.width <= 1920
        /\ client_image.height <= 1920
        /\ client_image.mode = "RGB"

===========================================================================
